---- MODULE Spec2Model ----
(***************************************************************************)
(* A model of simple-tree: the generic Node renderer (src/src/node.rs),    *)
(* the unbalanced binary tree (implementations/binary_unbalanced.rs) and   *)
(* the trie (implementations/trie.rs) and the directory snapshot           *)
(* (implementations/dir_tree.rs).                                          *)
(*                                                                         *)
(* Text is modelled byte for byte: a String is the sequence of its UTF-8   *)
(* bytes, so that String::len (bytes) and chars().nth (characters) differ  *)
(* exactly where they differ in Rust.                                      *)
(***************************************************************************)
EXTENDS Integers, Sequences, FiniteSets, TLC

VARIABLES
    root,       \* the NodeBinaryUnbalanced<i32> owned by the caller
    supplied,   \* history: value -> number of times it was given to new/insert
    trie,       \* the root Trie owned by the caller
    added,      \* history: word -> number of add(word) calls made on the root
    result,     \* outcome of the most recent Trie::add call on the root
    out,        \* outcome of format!("{}", tree) on the tree as it is now
    renders,    \* number of format! calls made on the tree since it last changed
    lastCall,   \* the method the caller called last
    fs,         \* the filesystem: path -> what is there (file, dir or link)
    frames,     \* the calls of DirTree::new_internal in progress, innermost last
    snapshot,   \* outcome of the DirTree::new call
    failure,    \* history: the filesystem operation that failed during the scan
    listed      \* history: directory -> number of times read_dir listed it

vars ==
    <<root, supplied, trie, added, result, out, renders, lastCall,
      fs, frames, snapshot, failure, listed>>

\* the state of the directory scan
dirVars == <<fs, frames, snapshot, failure, listed>>

\* the state of the trees built in memory
treeVars == <<root, supplied, trie, added, result, out, renders, lastCall>>

----------------------------------------------------------------------------
(* Bounds of the model *)

\* number of insert calls made on the binary tree
MaxInserts == 6
\* number of add calls made on the trie
MaxAdds == 4
\* number of characters of a word given to Trie::add
MaxWordLen == 2
\* number of add calls made on the trie that is also configured and rendered
MaxDocAdds == 7
\* number of format! calls counted on an unchanged tree
MaxRenders == 2
\* number of files, directories and links created in the filesystem
MaxFiles == 4
\* number of symbolic links followed in resolving one path
MaxHops == 3

\* the values given to the binary tree (those of the doc tests of node.rs)
Values == {2, 3, 5, 7, 11, 13, 15}

----------------------------------------------------------------------------
(* Strings: sequences of UTF-8 bytes *)

RECURSIVE Concat(_)
\* the concatenation of a sequence of strings, as successive write! calls
Concat(ss) == IF ss = <<>> THEN <<>> ELSE Head(ss) \o Concat(Tail(ss))

RECURSIVE DisplayInt(_)
\* Display of a non-negative integer: its decimal digits
DisplayInt(n) ==
    IF n < 10 THEN <<48 + n>> ELSE DisplayInt(n \div 10) \o <<48 + (n % 10)>>

\* "\n"
Newline == <<10>>
\* "├── "
TeePrefix == <<226, 148, 156, 226, 148, 128, 226, 148, 128, 32>>
\* "│   "
BarPrefix == <<226, 148, 130, 32, 32, 32>>
\* "└── "
EllPrefix == <<226, 148, 148, 226, 148, 128, 226, 148, 128, 32>>
\* "    "
BlankPrefix == <<32, 32, 32, 32>>

----------------------------------------------------------------------------
(* node.rs: the Node trait.  A node is seen through value() and children() *)
(* only: [value |-> String, children |-> sequence of such nodes].          *)

RECURSIVE count_descendents(_)

\* Node::count_children
count_children(n) == Len(n.children)

RECURSIVE SumSeq(_)
SumSeq(s) == IF s = <<>> THEN 0 ELSE Head(s) + SumSeq(Tail(s))

\* Node::count_descendents
count_descendents(n) ==
    SumSeq([i \in 1..Len(n.children) |-> count_descendents(n.children[i]) + 1])

\* usize subtraction `a - b`: -1 stands for the overflow panic
USub(a, b) == IF a >= b THEN a - b ELSE -1

\* the match on SpecialStatus with the child prefix of a last child left "│   "
StatusPrefixes_LastChildKeepsBar(status) ==
    CASE status = "None" -> <<TeePrefix, BarPrefix>>
      [] status = "Root" -> <<<<>>, <<>>>>
      [] status = "LastChild" -> <<EllPrefix, BarPrefix>>

\* the match on SpecialStatus in print_tree: <<s_prefix, c_prefix>>
StatusPrefixes(status) ==
    CASE status = "None" -> <<TeePrefix, BarPrefix>>
      [] status = "Root" -> <<<<>>, <<>>>>
      [] status = "LastChild" -> <<EllPrefix, BlankPrefix>>

RECURSIVE print_tree(_, _, _)
RECURSIVE print_children(_, _, _, _, _)

\* the loop `for (i, c) in self.children().enumerate()` of print_tree, from
\* index i (0-based) on, having written acc so far
print_children(ch, i, count, prefixes, acc) ==
    IF i >= Len(ch) THEN acc
    ELSE LET last == USub(count, 1)
             c_status == IF i = last THEN "LastChild" ELSE "None"
             sub == print_tree(ch[i + 1], prefixes, c_status)
         IN  IF last = -1 THEN [ok |-> FALSE, text |-> acc.text]
             ELSE IF ~sub.ok THEN [ok |-> FALSE, text |-> acc.text \o sub.text]
             ELSE print_children(ch, i + 1, count, prefixes,
                                 [ok |-> TRUE, text |-> acc.text \o sub.text])

\* Node::print_tree: what it writes to the formatter, and whether it returned
print_tree(n, prefixes, status) ==
    LET sc == StatusPrefixes(status)
        line == Concat(prefixes) \o sc[1] \o n.value
        pushed == Append(prefixes, sc[2])
        count == count_children(n)
    IN  print_children(n.children, 0, count, pushed, [ok |-> TRUE, text |-> line])

\* Node::fmt
fmt(n) == print_tree(n, <<Newline>>, "Root")

----------------------------------------------------------------------------
(* binary_unbalanced.rs.  Option<Box<_>> is a sequence of length 0 or 1.   *)

\* NodeBinaryUnbalanced::new
NodeBinaryUnbalanced_new(value) ==
    [val |-> value, count |-> 1, left |-> <<>>, right |-> <<>>]

RECURSIVE insert_EqualGoesLeft(_, _)
\* insert with Ordering::Equal handled like Ordering::Less
insert_EqualGoesLeft(n, value) ==
    IF value <= n.val
    THEN IF n.left # <<>>
         THEN [n EXCEPT !.left = <<insert_EqualGoesLeft(n.left[1], value)>>]
         ELSE [n EXCEPT !.left = <<NodeBinaryUnbalanced_new(value)>>]
    ELSE IF n.right # <<>>
         THEN [n EXCEPT !.right = <<insert_EqualGoesLeft(n.right[1], value)>>]
         ELSE [n EXCEPT !.right = <<NodeBinaryUnbalanced_new(value)>>]

RECURSIVE insert_GreaterIntoLeft(_, _)
\* insert whose Ordering::Greater arm descends into an existing left child
insert_GreaterIntoLeft(n, value) ==
    IF value < n.val
    THEN IF n.left # <<>>
         THEN [n EXCEPT !.left = <<insert_GreaterIntoLeft(n.left[1], value)>>]
         ELSE [n EXCEPT !.left = <<NodeBinaryUnbalanced_new(value)>>]
    ELSE IF value = n.val
    THEN [n EXCEPT !.count = @ + 1]
    ELSE IF n.left # <<>>
         THEN [n EXCEPT !.left = <<insert_GreaterIntoLeft(n.left[1], value)>>]
         ELSE IF n.right # <<>>
         THEN [n EXCEPT !.right = <<insert_GreaterIntoLeft(n.right[1], value)>>]
         ELSE [n EXCEPT !.right = <<NodeBinaryUnbalanced_new(value)>>]

RECURSIVE insert_EqualAddsTwo(_, _)
\* insert whose Ordering::Equal arm adds 2 to the count
insert_EqualAddsTwo(n, value) ==
    IF value < n.val
    THEN IF n.left # <<>>
         THEN [n EXCEPT !.left = <<insert_EqualAddsTwo(n.left[1], value)>>]
         ELSE [n EXCEPT !.left = <<NodeBinaryUnbalanced_new(value)>>]
    ELSE IF value = n.val
    THEN [n EXCEPT !.count = @ + 2]
    ELSE IF n.right # <<>>
         THEN [n EXCEPT !.right = <<insert_EqualAddsTwo(n.right[1], value)>>]
         ELSE [n EXCEPT !.right = <<NodeBinaryUnbalanced_new(value)>>]

RECURSIVE NodeBinaryUnbalanced_insert(_, _)
\* NodeBinaryUnbalanced::insert: the node after self.insert(value)
NodeBinaryUnbalanced_insert(n, value) ==
    IF value < n.val
    THEN IF n.left # <<>>
         THEN [n EXCEPT !.left = <<NodeBinaryUnbalanced_insert(n.left[1], value)>>]
         ELSE [n EXCEPT !.left = <<NodeBinaryUnbalanced_new(value)>>]
    ELSE IF value = n.val
    THEN [n EXCEPT !.count = @ + 1]
    ELSE IF n.right # <<>>
         THEN [n EXCEPT !.right = <<NodeBinaryUnbalanced_insert(n.right[1], value)>>]
         ELSE [n EXCEPT !.right = <<NodeBinaryUnbalanced_new(value)>>]

\* <NodeBinaryUnbalanced as Node>::value, displayed
NodeBinaryUnbalanced_value(n) == DisplayInt(n.val)

\* <NodeBinaryUnbalanced as Node>::children
NodeBinaryUnbalanced_children(n) == n.left \o n.right

RECURSIVE BinaryNode(_)
\* a NodeBinaryUnbalanced as the Node trait sees it
BinaryNode(n) ==
    LET ch == NodeBinaryUnbalanced_children(n)
    IN  [value |-> NodeBinaryUnbalanced_value(n),
         children |-> [i \in 1..Len(ch) |-> BinaryNode(ch[i])]]

----------------------------------------------------------------------------
(* trie.rs.  A char is its code point; a String is its UTF-8 bytes.        *)

\* 'a', 'b' and the two-byte 'é' (U+00E9)
Alphabet == {97, 98, 233}

\* the UTF-8 encoding of a char (code points below U+0800)
Utf8(c) == IF c < 128 THEN <<c>> ELSE <<192 + (c \div 64), 128 + (c % 64)>>

\* String::from_iter over chars
Encode(cs) == Concat([i \in 1..Len(cs) |-> Utf8(cs[i])])

RECURSIVE Chars(_)
\* str::chars, collected: the code points of well-formed UTF-8 bytes
Chars(s) ==
    IF s = <<>> THEN <<>>
    ELSE IF s[1] < 128 THEN <<s[1]>> \o Chars(Tail(s))
    ELSE <<(s[1] - 192) * 64 + (s[2] - 128)>> \o Chars(Tail(Tail(s)))

\* str::is_char_boundary
IsCharBoundary(s, i) ==
    \/ i = 0
    \/ i = Len(s)
    \/ i < Len(s) /\ ~(s[i + 1] >= 128 /\ s[i + 1] < 192)

\* str::starts_with
StartsWith(s, p) == Len(p) <= Len(s) /\ SubSeq(s, 1, Len(p)) = p

\* the words given to Trie::add
Words == {Encode(cs) : cs \in UNION {[1..k -> Alphabet] : k \in 0..MaxWordLen}}

SortOptions ==
    {"Value", "ValueReversed", "DirectCountAscending", "DirectCountDescending",
     "TotalCountAscending", "TotalCountDescending"}

DisplayDatas == {"None", "DirectCount", "TotalCount"}

\* BTreeMap::new
EmptyMap == [c \in {} |-> 0]

\* Trie::new_with_fragment
Trie_new_with_fragment(fragment, sort_option, display_data) ==
    [fragment |-> fragment, count |-> 0, descendents_count |-> 0,
     children |-> EmptyMap, sort_option |-> sort_option,
     display_data |-> display_data]

\* Trie::new
Trie_new == Trie_new_with_fragment(<<>>, "Value", "DirectCount")

\* Trie::with_sort_and_display
Trie_with_sort_and_display(sort_option, display_data) ==
    Trie_new_with_fragment(<<>>, sort_option, display_data)

\* Trie::next_char: word.chars().nth(self.fragment.len()), an Option
Trie_next_char(n, word) ==
    LET cs == Chars(word)
        i == Len(n.fragment)
    IN  IF i < Len(cs) THEN <<cs[i + 1]>> ELSE <<>>

\* first_rest: an Option of <<first char, rest of the string>>
first_rest(fragment) ==
    IF fragment = <<>> THEN <<>>
    ELSE LET first == Chars(fragment)[1]
         IN  <<<<first, SubSeq(fragment, Len(Utf8(first)) + 1, Len(fragment))>>>>

\* Trie::get
Trie_get(n, ch) == IF ch \in DOMAIN n.children THEN <<n.children[ch]>> ELSE <<>>

RECURSIVE Trie_find(_, _)
\* Trie::find
Trie_find(n, remaining) ==
    IF remaining = <<>> THEN <<n>>
    ELSE LET fr == first_rest(remaining)
         IN  IF fr = <<>> THEN <<>>
             ELSE LET c == Trie_get(n, fr[1][1])
                  IN  IF c = <<>> THEN <<>> ELSE Trie_find(c[1], fr[1][2])

\* Trie::occurrences
Trie_occurrences(n, word) ==
    LET f == Trie_find(n, word) IN IF f = <<>> THEN 0 ELSE f[1].count

\* Trie::total_occurrences
Trie_total_occurrences(n) == n.descendents_count

\* the map m with key k bound to v
MapPut(m, k, v) == [c \in DOMAIN m \cup {k} |-> IF c = k THEN v ELSE m[c]]

\* outcomes of add: Ok(n), Err(..), or a panic while the call was running
Ok(k) == [kind |-> "Ok", n |-> k]
Err == [kind |-> "Err", n |-> 0]
PanicBoundary == [kind |-> "PanicBoundary", n |-> 0]
PanicUnwrap == [kind |-> "PanicUnwrap", n |-> 0]
NoCall == [kind |-> "NoCall", n |-> 0]
Panics == {PanicBoundary, PanicUnwrap}

RECURSIVE add_CountsOnlyTerminal(_, _)
\* add with `self.descendents_count += 1` moved into the arm that ends the word
add_CountsOnlyTerminal(n, word) ==
    IF ~StartsWith(word, n.fragment) THEN [node |-> n, res |-> Err]
    ELSE
    LET nc == Trie_next_char(n, word)
    IN  IF nc = <<>>
        THEN LET n2 == [n EXCEPT !.count = @ + 1, !.descendents_count = @ + 1]
             IN  [node |-> n2, res |-> Ok(n2.count)]
        ELSE
        LET ch == nc[1]
            end == Len(n.fragment) + 1
            vacant == ch \notin DOMAIN n.children
        IN  IF vacant /\ ~(end <= Len(word) /\ IsCharBoundary(word, end))
            THEN [node |-> n, res |-> PanicBoundary]
            ELSE
            LET child == IF vacant
                         THEN Trie_new_with_fragment(SubSeq(word, 1, end),
                                                     n.sort_option, n.display_data)
                         ELSE n.children[ch]
                r == add_CountsOnlyTerminal(child, word)
                n2 == [n EXCEPT !.children = MapPut(@, ch, r.node)]
            IN  [node |-> n2,
                 res |-> IF r.res = Err THEN PanicUnwrap ELSE r.res]

RECURSIVE Trie_add(_, _)
\* Trie::add: [node |-> self when the call ends, res |-> how it ended]
Trie_add(n, word) ==
    IF ~StartsWith(word, n.fragment) THEN [node |-> n, res |-> Err]
    ELSE
    LET n1 == [n EXCEPT !.descendents_count = @ + 1]
        nc == Trie_next_char(n1, word)
    IN  IF nc = <<>>
        THEN LET n2 == [n1 EXCEPT !.count = @ + 1]
             IN  [node |-> n2, res |-> Ok(n2.count)]
        ELSE
        LET ch == nc[1]
            end == Len(n1.fragment) + 1
            vacant == ch \notin DOMAIN n1.children
        IN  IF vacant /\ ~(end <= Len(word) /\ IsCharBoundary(word, end))
            THEN [node |-> n1, res |-> PanicBoundary]
            ELSE
            LET child == IF vacant
                         THEN Trie_new_with_fragment(SubSeq(word, 1, end),
                                                     n1.sort_option, n1.display_data)
                         ELSE n1.children[ch]
                r == Trie_add(child, word)
                n2 == [n1 EXCEPT !.children = MapPut(@, ch, r.node)]
            IN  [node |-> n2,
                 res |-> IF r.res = Err THEN PanicUnwrap ELSE r.res]

\* set_sort_option without the loop over the children
set_sort_option_SelfOnly(n, sort_option) == [n EXCEPT !.sort_option = sort_option]

RECURSIVE Trie_set_sort_option(_, _)
\* Trie::set_sort_option
Trie_set_sort_option(n, sort_option) ==
    [n EXCEPT !.sort_option = sort_option,
              !.children = [c \in DOMAIN @ |-> Trie_set_sort_option(@[c], sort_option)]]

\* set_display_data that rebuilds the node from new_with_fragment, keeping the
\* counts but not the children
set_display_data_DropsChildren(n, display_data) ==
    [n EXCEPT !.display_data = display_data, !.children = EmptyMap]

RECURSIVE Trie_set_display_data(_, _)
\* Trie::set_display_data
Trie_set_display_data(n, display_data) ==
    [n EXCEPT !.display_data = display_data,
              !.children = [c \in DOMAIN @ |-> Trie_set_display_data(@[c], display_data)]]

\* "\t"
Tab == <<9>>

\* value() formatting descendents_count where count is asked for
value_DirectShowsTotal(n) ==
    IF n.fragment = <<>> THEN <<>>
    ELSE CASE n.display_data = "None" -> n.fragment
           [] n.display_data = "DirectCount" ->
                  n.fragment \o Tab \o DisplayInt(n.descendents_count)
           [] n.display_data = "TotalCount" ->
                  n.fragment \o Tab \o DisplayInt(n.descendents_count)

\* <Trie as Node>::value, displayed
Trie_value(n) ==
    IF n.fragment = <<>> THEN <<>>
    ELSE CASE n.display_data = "None" -> n.fragment
           [] n.display_data = "DirectCount" ->
                  n.fragment \o Tab \o DisplayInt(n.count)
           [] n.display_data = "TotalCount" ->
                  n.fragment \o Tab \o DisplayInt(n.descendents_count)

RECURSIVE KeysAscending(_)
\* the keys of a BTreeMap in the order its iterators visit them
KeysAscending(S) ==
    IF S = {} THEN <<>>
    ELSE LET m == CHOOSE x \in S : \A y \in S : x <= y
         IN  <<m>> \o KeysAscending(S \ {m})

\* BTreeMap::values, collected
BTreeMap_values(m) ==
    LET ks == KeysAscending(DOMAIN m) IN [i \in 1..Len(ks) |-> m[ks[i]]]

\* Iterator::rev, collected
Reverse(s) == [i \in 1..Len(s) |-> s[Len(s) + 1 - i]]

RECURSIVE sort_by(_, _, _)
\* slice::sort_by (a stable sort) with the comparator key(a).cmp(key(b)), or
\* key(b).cmp(key(a)) when reversed; keys[i] is the key of s[i]
sort_by(s, keys, reversed) ==
    IF s = <<>> THEN <<>>
    ELSE LET n == Len(s)
             before == sort_by(SubSeq(s, 1, n - 1), SubSeq(keys, 1, n - 1), reversed)
             k == keys[n]
             \* the elements of s[1..n-1] that the comparator does not put after s[n]
             j == Cardinality({i \in 1..(n - 1) :
                                  IF reversed THEN keys[i] >= k ELSE keys[i] <= k})
         IN  SubSeq(before, 1, j) \o <<s[n]>> \o SubSeq(before, j + 1, n - 1)

\* children() whose descending orders are the ascending sort, reversed
children_DescendingByReversal(n) ==
    LET vs == BTreeMap_values(n.children)
        direct == [i \in 1..Len(vs) |-> vs[i].count]
        total == [i \in 1..Len(vs) |-> vs[i].descendents_count]
    IN  CASE n.sort_option = "Value" -> vs
          [] n.sort_option = "ValueReversed" -> Reverse(vs)
          [] n.sort_option = "DirectCountAscending" -> sort_by(vs, direct, FALSE)
          [] n.sort_option = "DirectCountDescending" -> Reverse(sort_by(vs, direct, FALSE))
          [] n.sort_option = "TotalCountAscending" -> sort_by(vs, total, FALSE)
          [] n.sort_option = "TotalCountDescending" -> Reverse(sort_by(vs, total, FALSE))

\* <Trie as Node>::children, collected
Trie_children(n) ==
    LET vs == BTreeMap_values(n.children)
        direct == [i \in 1..Len(vs) |-> vs[i].count]
        total == [i \in 1..Len(vs) |-> vs[i].descendents_count]
    IN  CASE n.sort_option = "Value" -> vs
          [] n.sort_option = "ValueReversed" -> Reverse(vs)
          [] n.sort_option = "DirectCountAscending" -> sort_by(vs, direct, FALSE)
          [] n.sort_option = "DirectCountDescending" -> sort_by(vs, direct, TRUE)
          [] n.sort_option = "TotalCountAscending" -> sort_by(vs, total, FALSE)
          [] n.sort_option = "TotalCountDescending" -> sort_by(vs, total, TRUE)

RECURSIVE TrieNode(_)
\* a Trie as the Node trait sees it
TrieNode(n) ==
    LET ch == Trie_children(n)
    IN  [value |-> Trie_value(n),
         children |-> [i \in 1..Len(ch) |-> TrieNode(ch[i])]]

----------------------------------------------------------------------------
(* implementations/dir_tree.rs and the filesystem it reads.  A path is the *)
(* sequence of its components below "/"; "/" itself is <<>> and is always  *)
(* a directory.  fs holds what exists: a file, a directory or a symbolic   *)
(* link with its target.                                                   *)

\* the file names in use
Names == {1, 2}

\* the paths a symbolic link may point to: "/", "/1" and "/2"
LinkTargets == {<<>>, <<1>>, <<2>>}

\* what a path can hold
Entries ==
    {[kind |-> "file", target |-> <<>>], [kind |-> "dir", target |-> <<>>]}
        \cup {[kind |-> "link", target |-> t] : t \in LinkTargets}

\* the filesystem with nothing in "/"
EmptyFs == [p \in {} |-> 0]

\* the kind of the object at the resolved path p
KindOf(p) == IF p = <<>> THEN "dir" ELSE fs[p].kind

\* a path that was resolved to the object at `at`, and one that was not
Found(at) == [ok |-> TRUE, at |-> at]
NotFound == [ok |-> FALSE, at |-> <<>>]

RECURSIVE Walk(_, _, _, _)
\* path resolution: from the directory cur, the components rest in turn,
\* following a symbolic link in the middle of the path always and one at its
\* end if follow says so, at most hops links in all
Walk(cur, rest, hops, follow) ==
    IF rest = <<>> THEN Found(cur)
    ELSE IF KindOf(cur) # "dir" THEN NotFound
    ELSE LET next == Append(cur, Head(rest))
         IN  IF next \notin DOMAIN fs THEN NotFound
             ELSE IF fs[next].kind = "link" /\ (Tail(rest) # <<>> \/ follow)
             THEN IF hops = 0 THEN NotFound
                  ELSE Walk(<<>>, fs[next].target \o Tail(rest), hops - 1, follow)
             ELSE Walk(next, Tail(rest), hops, follow)

\* Path::symlink_metadata: the object at path, a link at its end not followed
symlink_metadata(path) == Walk(<<>>, path, MaxHops, FALSE)

\* Path::metadata: the object at path, every link followed
metadata(path) == Walk(<<>>, path, MaxHops, TRUE)

\* Path::read_link: the target of the link at path
read_link(path) == fs[symlink_metadata(path).at].target

\* fs::read_dir: the names in the directory at path
read_dir(path) ==
    LET d == metadata(path)
    IN  IF d.ok /\ KindOf(d.at) = "dir"
        THEN [ok |-> TRUE, names |-> {n \in Names : Append(d.at, n) \in DOMAIN fs}]
        ELSE [ok |-> FALSE, names |-> {}]

\* SpecialFile
SpecialNone == <<"None">>
SpecialRoot == <<"Root">>
SpecialSymlink(target) == <<"Symlink", target>>

\* the match on (is_root, is_symlink) taken the other way round: a link is a
\* Symlink even when it is the root
SpecialOf_SymlinkFirst(is_root, is_symlink) ==
    IF is_symlink THEN "Symlink" ELSE IF is_root THEN "Root" ELSE "None"

\* the arm of `match (is_root, metadata.is_symlink())`
SpecialOf(is_root, is_symlink) ==
    IF is_root THEN "Root" ELSE IF is_symlink THEN "Symlink" ELSE "None"

\* DirTree { path, special, children }
DirTree(path, special, children) ==
    [path |-> path, special |-> special, children |-> children]

\* a call of new_internal(path, is_root) about to run its first line
Frame(path, is_root) ==
    [path |-> path, is_root |-> is_root, pc |-> "symlink_metadata",
     kind |-> "", special |-> SpecialNone, todo |-> {}, children |-> <<>>]

\* the outcomes of DirTree::new: not called, a tree, an io::Error
NoSnapshot == [kind |-> "None", tree |-> <<>>, op |-> "", path |-> <<>>]
OkTree(t) == [kind |-> "Ok", tree |-> <<t>>, op |-> "", path |-> <<>>]
IoError(op, path) == [kind |-> "Err", tree |-> <<>>, op |-> op, path |-> path]

\* an error that only ends the call it happened in: the caller goes on to
\* its next entry
Propagate_SkipsEntry(fr, op, path) ==
    IF Len(fr) > 1
    THEN [frames |-> SubSeq(fr, 1, Len(fr) - 1), snapshot |-> NoSnapshot]
    ELSE [frames |-> <<>>, snapshot |-> IoError(op, path)]

\* the ? operator: the error returns from the call, and from each caller in
\* turn (line 101), up to DirTree::new, which returns it
Propagate(fr, op, path) == [frames |-> <<>>, snapshot |-> IoError(op, path)]

RECURSIVE PathKey(_)
\* the rank of a path among the paths of its length, in the order of Path::cmp
PathKey(p) ==
    IF p = <<>> THEN 0
    ELSE PathKey(SubSeq(p, 1, Len(p) - 1)) * (Cardinality(Names) + 1) + p[Len(p)]

\* no directory was listed
NothingListed == [d \in {} |-> 0]

\* one more listing of the directory d
Listing(l, d) == MapPut(l, d, IF d \in DOMAIN l THEN l[d] + 1 ELSE 1)

\* no DirTree::new call was made, on an empty filesystem
NoScan ==
    /\ fs = EmptyFs
    /\ frames = <<>>
    /\ snapshot = NoSnapshot
    /\ failure = <<>>
    /\ listed = NothingListed

----------------------------------------------------------------------------
(* The programs: a caller owning one tree, calling its public methods.     *)

RECURSIVE SumOver(_, _)
\* the sum of f over the finite set S of its domain
SumOver(f, S) ==
    IF S = {} THEN 0
    ELSE LET x == CHOOSE y \in S : TRUE IN f[x] + SumOver(f, S \ {x})

\* no format! result is held for the tree as it is now
NotRendered == [rendered |-> FALSE, ok |-> TRUE, text |-> <<>>]

\* the String (or the panic) that format!("{}", n) gives
Rendered(n) == LET r == fmt(n) IN [rendered |-> TRUE, ok |-> r.ok, text |-> r.text]

\* the count of format! calls after one more
Counted(k) == IF k < MaxRenders THEN k + 1 ELSE k

(* Binary tree: NodeBinaryUnbalanced::new(seed), then insert and format!   *)

InitBst ==
    /\ \E seed \in Values :
          /\ root = NodeBinaryUnbalanced_new(seed)
          /\ supplied = [v \in Values |-> IF v = seed THEN 1 ELSE 0]
    /\ out = NotRendered
    /\ renders = 0
    /\ lastCall = "new"
    /\ trie = Trie_new
    /\ added = [w \in Words |-> 0]
    /\ result = NoCall
    /\ NoScan

\* root.insert(value)
Insert(value) ==
    /\ SumOver(supplied, Values) < MaxInserts + 1
    /\ root' = NodeBinaryUnbalanced_insert(root, value)
    /\ supplied' = [supplied EXCEPT ![value] = @ + 1]
    /\ out' = NotRendered
    /\ renders' = 0
    /\ lastCall' = "insert"
    /\ UNCHANGED <<trie, added, result>>
    /\ UNCHANGED dirVars

\* format!("{}", root)
FormatBst ==
    /\ out' = Rendered(BinaryNode(root))
    /\ renders' = Counted(renders)
    /\ lastCall' = "format"
    /\ UNCHANGED <<root, supplied, trie, added, result>>
    /\ UNCHANGED dirVars

NextBst == (\E value \in Values : Insert(value)) \/ FormatBst

SpecBst == InitBst /\ [][NextBst]_vars

(* Trie: Trie::new(), then add on the root.  A panic of add unwinds to the *)
(* caller, which keeps the trie as the call left it and calls no more.     *)

InitTrie ==
    /\ trie = Trie_new
    /\ added = [w \in Words |-> 0]
    /\ result = NoCall
    /\ out = NotRendered
    /\ renders = 0
    /\ lastCall = "new"
    /\ root = NodeBinaryUnbalanced_new(7)
    /\ supplied = [v \in Values |-> IF v = 7 THEN 1 ELSE 0]
    /\ NoScan

\* trie.add(word)
Add(word) ==
    /\ result \notin Panics
    /\ SumOver(added, Words) < MaxAdds
    /\ LET r == Trie_add(trie, word)
       IN  /\ trie' = r.node
           /\ result' = r.res
    /\ added' = [added EXCEPT ![word] = @ + 1]
    /\ out' = NotRendered
    /\ renders' = 0
    /\ lastCall' = "add"
    /\ UNCHANGED <<root, supplied>>
    /\ UNCHANGED dirVars

NextTrie == \E word \in Words : Add(word)

SpecTrie == InitTrie /\ [][NextTrie]_vars

(* Trie, configured and rendered: Trie::new() or with_sort_and_display,    *)
(* then add, set_sort_option, set_display_data and format! on the root,    *)
(* with the words of the doc tests of trie.rs.                             *)

\* "", "b", "foo", "bar", "baz" (trie.rs:88) and "é"
DocWords ==
    {<<>>, <<98>>, <<102, 111, 111>>, <<98, 97, 114>>, <<98, 97, 122>>, <<195, 169>>}

InitTrieDisplay ==
    /\ \/ trie = Trie_new
       \/ \E o \in SortOptions, d \in DisplayDatas :
             trie = Trie_with_sort_and_display(o, d)
    /\ added = [w \in DocWords |-> 0]
    /\ result = NoCall
    /\ out = NotRendered
    /\ renders = 0
    /\ lastCall = "new"
    /\ root = NodeBinaryUnbalanced_new(7)
    /\ supplied = [v \in Values |-> IF v = 7 THEN 1 ELSE 0]
    /\ NoScan

\* trie.add(word), as long as fewer than max words were added
AddUpTo(word, max) ==
    /\ result \notin Panics
    /\ SumOver(added, DocWords) < max
    /\ LET r == Trie_add(trie, word)
       IN  /\ trie' = r.node
           /\ result' = r.res
    /\ added' = [added EXCEPT ![word] = @ + 1]
    /\ out' = NotRendered
    /\ renders' = 0
    /\ lastCall' = "add"
    /\ UNCHANGED <<root, supplied>>
    /\ UNCHANGED dirVars

\* trie.add(word), in a run long enough for the seven words of trie.rs:88
AddDoc(word) == AddUpTo(word, MaxDocAdds)

\* trie.add(word), in a run of a few add calls
AddFew(word) == AddUpTo(word, MaxAdds)

\* trie.set_sort_option(sort_option)
SetSortOption(sort_option) ==
    /\ result \notin Panics
    /\ trie' = Trie_set_sort_option(trie, sort_option)
    /\ out' = NotRendered
    /\ renders' = 0
    /\ lastCall' = "set_sort_option"
    /\ UNCHANGED <<added, result, root, supplied>>
    /\ UNCHANGED dirVars

\* trie.set_display_data(display_data)
SetDisplayData(display_data) ==
    /\ result \notin Panics
    /\ trie' = Trie_set_display_data(trie, display_data)
    /\ out' = NotRendered
    /\ renders' = 0
    /\ lastCall' = "set_display_data"
    /\ UNCHANGED <<added, result, root, supplied>>
    /\ UNCHANGED dirVars

\* format! that leaves the trie sorted by value
FormatTrie_ResetsSortOption ==
    /\ out' = Rendered(TrieNode(trie))
    /\ renders' = Counted(renders)
    /\ lastCall' = "format"
    /\ trie' = Trie_set_sort_option(trie, "Value")
    /\ UNCHANGED <<added, result, root, supplied>>
    /\ UNCHANGED dirVars

\* format!("{}", trie)
FormatTrie ==
    /\ out' = Rendered(TrieNode(trie))
    /\ renders' = Counted(renders)
    /\ lastCall' = "format"
    /\ UNCHANGED <<trie, added, result, root, supplied>>
    /\ UNCHANGED dirVars

NextTrieDisplay ==
    \/ \E word \in DocWords : AddDoc(word)
    \/ \E sort_option \in SortOptions : SetSortOption(sort_option)
    \/ \E display_data \in DisplayDatas : SetDisplayData(display_data)
    \/ FormatTrie

SpecTrieDisplay == InitTrieDisplay /\ [][NextTrieDisplay]_vars

\* the same calls, with fewer add calls among them
NextTrieSettings ==
    \/ \E word \in DocWords : AddFew(word)
    \/ \E sort_option \in SortOptions : SetSortOption(sort_option)
    \/ \E display_data \in DisplayDatas : SetDisplayData(display_data)
    \/ FormatTrie

SpecTrieSettings == InitTrieDisplay /\ [][NextTrieSettings]_vars

(* Directory snapshot: DirTree::new(path) on a filesystem that does not    *)
(* change during the call.  Each filesystem operation of new_internal is a *)
(* step; any of them may fail (permission denied, I/O error) besides       *)
(* failing because of what the filesystem holds.                           *)

\* the directories of the filesystem f, "/" included
Directories(f) == {<<>>} \cup {d \in DOMAIN f : f[d].kind = "dir"}

RECURSIVE FileSystems(_)
\* the filesystems holding at most k files, directories and links, each in
\* "/" or in a directory
FileSystems(k) ==
    IF k = 0 THEN {EmptyFs}
    ELSE LET smaller == FileSystems(k - 1)
         IN  smaller \cup
             UNION {{MapPut(f, p, e) :
                        p \in {Append(d, n) : d \in Directories(f), n \in Names}
                                  \ DOMAIN f,
                        e \in Entries} : f \in smaller}

\* the paths given to DirTree::new: "/" and "/1"
Starts == {<<>>, <<1>>}

InitDir ==
    /\ fs \in FileSystems(MaxFiles)
    /\ frames = <<>>
    /\ snapshot = NoSnapshot
    /\ failure = <<>>
    /\ listed = NothingListed
    /\ root = NodeBinaryUnbalanced_new(7)
    /\ supplied = [v \in Values |-> IF v = 7 THEN 1 ELSE 0]
    /\ trie = Trie_new
    /\ added = [w \in Words |-> 0]
    /\ result = NoCall
    /\ out = NotRendered
    /\ renders = 0
    /\ lastCall = "new"

\* the innermost call of new_internal
Top == frames[Len(frames)]

\* the calls in progress, the innermost one now being f
SetTop(f) == [frames EXCEPT ![Len(frames)] = f]

\* the innermost call is at the line pc
Scanning(pc) == frames # <<>> /\ Top.pc = pc

\* the filesystem operation op on path returns an error
Fails(op, path) ==
    /\ failure' = IF failure = <<>> THEN <<[op |-> op, path |-> path]>> ELSE failure
    /\ LET r == Propagate(frames, op, path)
       IN  /\ frames' = r.frames
           /\ snapshot' = r.snapshot
    /\ UNCHANGED <<fs, listed>>
    /\ UNCHANGED treeVars

\* the innermost call goes on as f
GoesOn(f) ==
    /\ frames' = SetTop(f)
    /\ UNCHANGED <<fs, snapshot, failure, listed>>
    /\ UNCHANGED treeVars

\* DirTree::new(path)
New(path) ==
    /\ frames = <<>>
    /\ snapshot = NoSnapshot
    /\ failure = <<>>
    /\ frames' = <<Frame(path, TRUE)>>
    /\ UNCHANGED <<fs, snapshot, failure, listed>>
    /\ UNCHANGED treeVars

\* let metadata = path.symlink_metadata()?;
SymlinkMetadata ==
    /\ Scanning("symlink_metadata")
    /\ \E fault \in BOOLEAN :
          LET r == symlink_metadata(Top.path)
          IN  IF fault \/ ~r.ok
              THEN Fails("symlink_metadata", Top.path)
              ELSE GoesOn([Top EXCEPT !.kind = KindOf(r.at), !.pc = "special"])

\* let special = match (is_root, metadata.is_symlink()) { ... };
Special ==
    /\ Scanning("special")
    /\ LET which == SpecialOf(Top.is_root, Top.kind = "link")
       IN  IF which = "Symlink"
           THEN \E fault \in BOOLEAN :
                   IF fault
                   THEN Fails("read_link", Top.path)
                   ELSE GoesOn([Top EXCEPT
                                   !.special = SpecialSymlink(read_link(Top.path)),
                                   !.pc = "condition"])
           ELSE GoesOn([Top EXCEPT
                           !.special = IF which = "Root" THEN SpecialRoot
                                       ELSE SpecialNone,
                           !.pc = "condition"])

\* the condition without is_root: a link to a directory is gone into wherever
\* it is found
Condition_FollowsEveryLink ==
    /\ Scanning("condition")
    /\ IF Top.kind = "dir"
       THEN GoesOn([Top EXCEPT !.pc = "read_dir"])
       ELSE IF Top.kind = "link"
       THEN \E fault \in BOOLEAN :
               LET m == metadata(Top.path)
               IN  IF fault \/ ~m.ok
                   THEN Fails("metadata", Top.path)
                   ELSE GoesOn([Top EXCEPT
                                   !.pc = IF KindOf(m.at) = "dir" THEN "read_dir"
                                          ELSE "sort"])
       ELSE GoesOn([Top EXCEPT !.pc = "sort"])

\* if metadata.is_dir() || is_root && metadata.is_symlink() && path.metadata()?.is_dir()
Condition ==
    /\ Scanning("condition")
    /\ IF Top.kind = "dir"
       THEN GoesOn([Top EXCEPT !.pc = "read_dir"])
       ELSE IF Top.is_root /\ Top.kind = "link"
       THEN \E fault \in BOOLEAN :
               LET m == metadata(Top.path)
               IN  IF fault \/ ~m.ok
                   THEN Fails("metadata", Top.path)
                   ELSE GoesOn([Top EXCEPT
                                   !.pc = IF KindOf(m.at) = "dir" THEN "read_dir"
                                          ELSE "sort"])
       ELSE GoesOn([Top EXCEPT !.pc = "sort"])

\* fs::read_dir(&path)?
ReadDir ==
    /\ Scanning("read_dir")
    /\ \E fault \in BOOLEAN :
          LET r == read_dir(Top.path)
          IN  IF fault \/ ~r.ok
              THEN Fails("read_dir", Top.path)
              ELSE /\ frames' = SetTop([Top EXCEPT !.todo = r.names,
                                                    !.pc = "entries"])
                   /\ listed' = Listing(listed, metadata(Top.path).at)
                   /\ UNCHANGED <<fs, snapshot, failure>>
                   /\ UNCHANGED treeVars

\* the next entry of the listing, in whatever order the system gives them:
\* entry?, then the call Self::new_internal(entry.path(), false)
Entry ==
    /\ Scanning("entries")
    /\ \E name \in Top.todo, fault \in BOOLEAN :
          IF fault
          THEN Fails("entry", Append(Top.path, name))
          ELSE /\ frames' = Append(SetTop([Top EXCEPT !.todo = @ \ {name}]),
                                   Frame(Append(Top.path, name), FALSE))
               /\ UNCHANGED <<fs, snapshot, failure, listed>>
               /\ UNCHANGED treeVars

\* children.sort_by(..); Ok(DirTree { .. }): the value goes to DirTree::new's
\* caller, or into the children of the calling new_internal (children.push)
Return ==
    /\ \/ Scanning("sort")
       \/ Scanning("entries") /\ Top.todo = {}
    /\ LET keys == [i \in 1..Len(Top.children) |-> PathKey(Top.children[i].path)]
           node == DirTree(Top.path, Top.special, sort_by(Top.children, keys, FALSE))
           callers == SubSeq(frames, 1, Len(frames) - 1)
       IN  IF callers = <<>>
           THEN /\ frames' = <<>>
                /\ snapshot' = OkTree(node)
           ELSE /\ frames' = [callers EXCEPT
                                 ![Len(callers)].children = Append(@, node)]
                /\ UNCHANGED snapshot
    /\ UNCHANGED <<fs, failure, listed>>
    /\ UNCHANGED treeVars

NextDir ==
    \/ \E path \in Starts : New(path)
    \/ SymlinkMetadata
    \/ Special
    \/ Condition
    \/ ReadDir
    \/ Entry
    \/ Return

SpecDir == InitDir /\ [][NextDir]_vars

\* the call runs on: a step of the scan that can be taken is taken
SpecDirFair == SpecDir /\ WF_vars(NextDir)

----------------------------------------------------------------------------
(* Vocabulary of the properties *)

RECURSIVE BinaryNodes(_)
\* the nodes of a binary tree
BinaryNodes(n) ==
    {n} \cup (IF n.left = <<>> THEN {} ELSE BinaryNodes(n.left[1]))
        \cup (IF n.right = <<>> THEN {} ELSE BinaryNodes(n.right[1]))

\* the values held in the subtree of an Option<Box<node>>
SubtreeValues(opt) ==
    IF opt = <<>> THEN {} ELSE {m.val : m \in BinaryNodes(opt[1])}

RECURSIVE InOrder(_)
\* the in-order traversal: left, node, right
InOrder(opt) ==
    IF opt = <<>> THEN <<>>
    ELSE InOrder(opt[1].left) \o <<opt[1].val>> \o InOrder(opt[1].right)

RECURSIVE Located(_, _)
\* the nodes of a binary tree with their place: <<path from the root, val, count>>
Located(n, path) ==
    {<<path, n.val, n.count>>}
        \cup (IF n.left = <<>> THEN {} ELSE Located(n.left[1], Append(path, "left")))
        \cup (IF n.right = <<>> THEN {} ELSE Located(n.right[1], Append(path, "right")))

RECURSIVE Depth(_)
\* the number of nodes on the longest path from the root of a Node
Depth(n) ==
    LET ds == {Depth(n.children[i]) : i \in 1..Len(n.children)}
    IN  1 + (IF ds = {} THEN 0 ELSE CHOOSE d \in ds : \A e \in ds : e <= d)

----------------------------------------------------------------------------
(* Binary tree *)

\* C5: after new(seed) and any inserts, at every node all values of the left
\* subtree are less than the node's value and all values of the right subtree
\* are greater, so the in-order traversal is in non-decreasing order.
C5_SearchTreeOrder ==
    /\ \A n \in BinaryNodes(root) :
          /\ \A v \in SubtreeValues(n.left) : v < n.val
          /\ \A v \in SubtreeValues(n.right) : v > n.val
    /\ LET io == InOrder(<<root>>)
       IN  \A i \in 1..(Len(io) - 1) : io[i] <= io[i + 1]

\* a tree with a node that has both children, four levels, and a repeated value
C5_Witness ==
    /\ \E n \in BinaryNodes(root) : n.left # <<>> /\ n.right # <<>>
    /\ Depth(BinaryNode(root)) >= 4
    /\ \E v \in Values : supplied[v] >= 2

\* C6: root.count_descendents() + 1 is the number of distinct values among the
\* seed and the inserted values.
C6_DescendentsCountDistinct ==
    count_descendents(BinaryNode(root)) + 1
        = Cardinality({v \in Values : supplied[v] > 0})

\* three distinct values, one of them supplied three times
C6_Witness ==
    /\ Cardinality({v \in Values : supplied[v] > 0}) = 3
    /\ \E v \in Values : supplied[v] = 3
    /\ count_descendents(BinaryNode(root)) = 2

\* C7: insert(v) of a value already in the tree creates no node and changes no
\* link: the count of the node holding v grows by one, every other node keeps
\* its value, count and place; and so every node's count is the number of times
\* its value was supplied.
C7_EqualInsertOnlyCounts ==
    /\ [][\A v \in Values :
            (supplied'[v] = supplied[v] + 1 /\ supplied[v] > 0)
                => Located(root', <<>>)
                     = {<<t[1], t[2], IF t[2] = v THEN t[3] + 1 ELSE t[3]>> :
                            t \in Located(root, <<>>)}]_vars
    /\ [](\A n \in BinaryNodes(root) : n.count = supplied[n.val])

\* a non-root node of a tree of four nodes holds a value supplied twice
C7_Witness ==
    /\ Cardinality(BinaryNodes(root)) >= 4
    /\ \E n \in BinaryNodes(root) : n # root /\ n.count = 2 /\ supplied[n.val] = 2

----------------------------------------------------------------------------
(* Rendering *)

RECURSIVE Lines(_)
\* the lines of a text: the pieces between its newline bytes (str::split('\n'))
Lines(text) ==
    IF \A i \in 1..Len(text) : text[i] # 10 THEN <<text>>
    ELSE LET k == CHOOSE i \in 1..Len(text) :
                      text[i] = 10 /\ \A j \in 1..(i - 1) : text[j] # 10
         IN  <<SubSeq(text, 1, k - 1)>> \o Lines(SubSeq(text, k + 1, Len(text)))

RECURSIVE Paths(_)
\* the nodes of a Node tree, each named by the child indices leading to it
Paths(n) ==
    {<<>>} \cup UNION {{<<i>> \o p : p \in Paths(n.children[i])} :
                          i \in 1..Len(n.children)}

RECURSIVE NodeAt(_, _)
NodeAt(n, p) == IF p = <<>> THEN n ELSE NodeAt(n.children[p[1]], Tail(p))

\* the node at the non-empty path p is the last child of its parent
IsLastChild(n, p) ==
    p[Len(p)] = Len(NodeAt(n, SubSeq(p, 1, Len(p) - 1)).children)

\* q comes before p in depth-first pre-order, children in children() order
PreorderBefore(q, p) ==
    \/ Len(q) < Len(p) /\ SubSeq(p, 1, Len(q)) = q
    \/ \E k \in 1..Len(q) :
          /\ k <= Len(p)
          /\ SubSeq(q, 1, k - 1) = SubSeq(p, 1, k - 1)
          /\ q[k] < p[k]

\* the 1-based position of the node at p in pre-order
PreorderIndex(n, p) == 1 + Cardinality({q \in Paths(n) : PreorderBefore(q, p)})

\* the line of the non-root node at p, as the prefix rule words it
MarkedLine(n, p) ==
    Concat([k \in 1..(Len(p) - 1) |->
               IF IsLastChild(n, SubSeq(p, 1, k)) THEN BlankPrefix ELSE BarPrefix])
        \o (IF IsLastChild(n, p) THEN EllPrefix ELSE TeePrefix)
        \o NodeAt(n, p).value

\* C8: the rendered text is the node lines joined by single newlines, with no
\* trailing newline, and it begins with the root's value: nothing, and no
\* newline, comes before it.
C8_RootLineFirst ==
    out.rendered =>
        /\ out.ok
        /\ StartsWith(out.text, NodeBinaryUnbalanced_value(root))
        /\ out.text[Len(out.text)] # 10
        /\ \A i \in 1..(Len(out.text) - 1) : ~(out.text[i] = 10 /\ out.text[i + 1] = 10)

\* C9: the line of every non-root node is, for each non-root proper ancestor from
\* the shallowest on, "│   " if the ancestor is not a last child and "    " if it
\* is, then "├── " if the node is not a last child and "└── " if it is, then
\* the node's value.  The non-root nodes' lines are the last count_descendents()
\* lines of the text, in pre-order.
C9_LinePrefixes ==
    out.rendered =>
        LET n == BinaryNode(root)
            ls == Lines(out.text)
            first == Len(ls) - (count_descendents(n) + 1)
        IN  /\ first >= 0
            /\ \A p \in Paths(n) \ {<<>>} :
                  ls[first + PreorderIndex(n, p)] = MarkedLine(n, p)

\* a rendered tree where a child that is not the last has a grandchild below it,
\* a last child has a child, and some node is an only child
C9_Witness ==
    /\ out.rendered
    /\ LET n == BinaryNode(root)
       IN  /\ \E p \in Paths(n) :
                 /\ Len(p) = 3
                 /\ ~IsLastChild(n, SubSeq(p, 1, 1))
                 /\ IsLastChild(n, SubSeq(p, 1, 2))
           /\ \E p \in Paths(n) :
                 /\ Len(p) = 2
                 /\ IsLastChild(n, SubSeq(p, 1, 1))
                 /\ ~IsLastChild(n, p)
           /\ \E p \in Paths(n) \ {<<>>} :
                 Len(NodeAt(n, SubSeq(p, 1, Len(p) - 1)).children) = 1

\* C10: rendering returns without panic and emits exactly one line per node,
\* count_descendents() + 1 lines in all (one line for a childless root), the
\* i-th line being that of the i-th node in depth-first pre-order with children
\* in children() order.
C10_OneLinePerNodeInPreorder ==
    out.rendered =>
        LET n == BinaryNode(root)
            ls == Lines(out.text)
        IN  /\ out.ok
            /\ Len(ls) = count_descendents(n) + 1
            /\ \A p \in Paths(n) :
                  LET l == ls[PreorderIndex(n, p)]
                      v == NodeAt(n, p).value
                  IN  /\ Len(l) >= Len(v)
                      /\ SubSeq(l, Len(l) - Len(v) + 1, Len(l)) = v

----------------------------------------------------------------------------
(* Trie *)

RECURSIVE TrieNodes(_)
\* the nodes of a trie
TrieNodes(n) == {n} \cup UNION {TrieNodes(n.children[c]) : c \in DOMAIN n.children}

\* C1: after any sequence of add calls on the root, occurrences(w) is the number
\* of add calls whose argument was exactly w, for every word w.
C1_OccurrencesCountAdds ==
    \A w \in Words : Trie_occurrences(trie, w) = added[w]

\* C2: total_occurrences() of the root is the number of add calls made, and
\* total_occurrences() of any node is the number of add calls whose word starts
\* with the node's fragment.
C2_TotalOccurrences ==
    /\ Trie_total_occurrences(trie) = SumOver(added, Words)
    /\ \A n \in TrieNodes(trie) :
          Trie_total_occurrences(n)
              = SumOver(added, {w \in Words : StartsWith(w, n.fragment)})

\* three add calls, the empty word among them, one word twice, and a node two
\* characters deep that only some of the words pass through
C2_Witness ==
    /\ added[<<>>] = 1
    /\ added[<<97, 98>>] = 2
    /\ \E n \in TrieNodes(trie) :
          n.fragment = <<97, 98>> /\ Trie_total_occurrences(n) = 2
    /\ Trie_total_occurrences(trie) = 3

\* C3: every node, the root included, has
\* descendents_count = count + the sum of its children's descendents_count.
C3_SubtreeCountIsSum ==
    \A n \in TrieNodes(trie) :
        n.descendents_count
            = n.count + SumOver([c \in DOMAIN n.children |->
                                    n.children[c].descendents_count],
                                DOMAIN n.children)

\* C4: every add(word) on the root returns Ok(k), k being the number of times
\* that word has been added, this call included; it never returns the
\* "incompatible prefix" error and never panics.
C4_AddReturnsCount ==
    [][\A w \in Words :
          added'[w] = added[w] + 1 => result' = Ok(added'[w])]_vars

----------------------------------------------------------------------------
(* Trie: settings, value(), children() and rendering *)

RECURSIVE Content(_)
\* a trie without its settings: fragments, counts and child keys
Content(n) ==
    [fragment |-> n.fragment, count |-> n.count,
     descendents_count |-> n.descendents_count,
     children |-> [c \in DOMAIN n.children |-> Content(n.children[c])]]

\* the part of a displayed value before its tab, if it has one
FragmentShown(value) ==
    IF \A i \in 1..Len(value) : value[i] # 9 THEN value
    ELSE SubSeq(value, 1, (CHOOSE i \in 1..Len(value) :
                              value[i] = 9 /\ \A j \in 1..(i - 1) : value[j] # 9) - 1)

RECURSIVE Shown(_, _)
RECURSIVE ShownFrom(_, _, _)
\* what a rendering of the trie n prints, in the order it prints it: value()
\* of the node, then the same for each of children() in turn; with whole
\* false, only the fragment part of each value
Shown(n, whole) ==
    <<IF whole THEN Trie_value(n) ELSE FragmentShown(Trie_value(n))>>
        \o ShownFrom(Trie_children(n), 1, whole)

\* what is printed for the subtrees ch[i], ch[i + 1], ...
ShownFrom(ch, i, whole) ==
    IF i > Len(ch) THEN <<>>
    ELSE Shown(ch[i], whole) \o ShownFrom(ch, i + 1, whole)

RECURSIVE Range(_)
\* the set of the elements of a sequence
Range(s) == IF s = <<>> THEN {} ELSE {Head(s)} \cup Range(Tail(s))

C12_SettingsUniform ==
    \A n \in TrieNodes(trie) :
        n.sort_option = trie.sort_option /\ n.display_data = trie.display_data

\* a setter was just called on a trie three levels deep whose settings are not
\* those of Trie::new
C12_Witness ==
    /\ lastCall = "set_sort_option"
    /\ trie.sort_option = "DirectCountAscending"
    /\ trie.display_data = "TotalCount"
    /\ \E n \in TrieNodes(trie) : Len(n.fragment) = 3

\* C13: set_sort_option and set_display_data leave every node's fragment,
\* count, descendents_count and child keys as they were, hence occurrences(w),
\* total_occurrences() and the set of nodes; the values a rendering shows are
\* the same set after set_sort_option, and the same fragments in the same
\* order after set_display_data.
C13_SettersKeepContent ==
    [][lastCall' \in {"set_sort_option", "set_display_data"} =>
          /\ Content(trie') = Content(trie)
          /\ \A w \in DocWords : Trie_occurrences(trie', w) = Trie_occurrences(trie, w)
          /\ Trie_total_occurrences(trie') = Trie_total_occurrences(trie)
          /\ {n.fragment : n \in TrieNodes(trie')} = {n.fragment : n \in TrieNodes(trie)}
          /\ lastCall' = "set_sort_option" =>
                Range(Shown(trie', TRUE)) = Range(Shown(trie, TRUE))
          /\ lastCall' = "set_display_data" =>
                Shown(trie', FALSE) = Shown(trie, FALSE)]_vars

\* set_display_data was just called on a trie of at least five nodes in which
\* words were counted
C13_Witness ==
    /\ lastCall = "set_display_data"
    /\ trie.display_data = "None"
    /\ Cardinality(TrieNodes(trie)) >= 5
    /\ \E n \in TrieNodes(trie) : n.count >= 2

\* the key under which the parent n stores its child m
KeyOf(n, m) == CHOOSE c \in DOMAIN n.children : n.children[c] = m

\* a child with count ca and key ka comes before one with cb and kb: smaller
\* count first (greater when descending), equal counts by ascending key
NumericBefore(ca, ka, cb, kb, descending) ==
    \/ (IF descending THEN ca > cb ELSE ca < cb)
    \/ ca = cb /\ ka < kb

\* C14: children() yields every stored child exactly once, by key ascending
\* (Value) or descending (ValueReversed), or by count or descendents_count,
\* ascending or descending, children with equal counts by ascending key.
C14_ChildrenOrdered ==
    \A n \in TrieNodes(trie) :
        LET ch == Trie_children(n)
            o == n.sort_option
        IN  /\ Len(ch) = Cardinality(DOMAIN n.children)
            /\ Range(ch) = {n.children[c] : c \in DOMAIN n.children}
            /\ \A i, j \in 1..Len(ch) :
                  i < j =>
                    LET a == ch[i]
                        b == ch[j]
                        ka == KeyOf(n, a)
                        kb == KeyOf(n, b)
                    IN  CASE o = "Value" -> ka < kb
                          [] o = "ValueReversed" -> ka > kb
                          [] o = "DirectCountAscending" ->
                                 NumericBefore(a.count, ka, b.count, kb, FALSE)
                          [] o = "DirectCountDescending" ->
                                 NumericBefore(a.count, ka, b.count, kb, TRUE)
                          [] o = "TotalCountAscending" ->
                                 NumericBefore(a.descendents_count, ka,
                                               b.descendents_count, kb, FALSE)
                          [] o = "TotalCountDescending" ->
                                 NumericBefore(a.descendents_count, ka,
                                               b.descendents_count, kb, TRUE)

\* sorted by direct count, descending: one node has two children of equal
\* count, another has two children of different counts, the greater key first
C14_Witness ==
    /\ trie.sort_option = "DirectCountDescending"
    /\ \E n \in TrieNodes(trie) :
          \E c, d \in DOMAIN n.children :
              c < d /\ n.children[c].count = n.children[d].count
    /\ \E n \in TrieNodes(trie) :
          \E c, d \in DOMAIN n.children :
              c < d /\ n.children[c].count < n.children[d].count

\* C15: value() of the root is the empty string, in every display mode and
\* whatever its counts; value() of any other node is its fragment (None), its
\* fragment, a tab and its count (DirectCount), or its fragment, a tab and its
\* descendents_count (TotalCount).
C15_ValueShown ==
    /\ Trie_value(trie) = <<>>
    /\ \A n \in TrieNodes(trie) \ {trie} :
          LET v == Trie_value(n)
              d == n.display_data
          IN  /\ d = "None" => v = n.fragment
              /\ d = "DirectCount" => v = n.fragment \o <<9>> \o DisplayInt(n.count)
              /\ d = "TotalCount" =>
                    v = n.fragment \o <<9>> \o DisplayInt(n.descendents_count)

\* the empty word was added, direct counts are displayed, and some node's count
\* differs from its descendents_count
C15_Witness ==
    /\ added[<<>>] >= 1
    /\ trie.count >= 1
    /\ trie.display_data = "DirectCount"
    /\ \E n \in TrieNodes(trie) \ {trie} : n.count # n.descendents_count

\* the text that C16 words: an empty root line, then the seven lines
DocText ==
    LET b == <<98>>
        ba == <<98, 97>>
        bar == <<98, 97, 114>>
        baz == <<98, 97, 122>>
        f == <<102>>
        fo == <<102, 111>>
        foo == <<102, 111, 111>>
    IN  Newline \o TeePrefix \o b \o <<9, 49>>
        \o Newline \o BarPrefix \o EllPrefix \o ba \o <<9, 48>>
        \o Newline \o BarPrefix \o BlankPrefix \o TeePrefix \o bar \o <<9, 49>>
        \o Newline \o BarPrefix \o BlankPrefix \o EllPrefix \o baz \o <<9, 50>>
        \o Newline \o EllPrefix \o f \o <<9, 48>>
        \o Newline \o BlankPrefix \o EllPrefix \o fo \o <<9, 48>>
        \o Newline \o BlankPrefix \o BlankPrefix \o EllPrefix \o foo \o <<9, 51>>

\* foo three times, baz twice, bar and b once, and nothing else
DocAdded ==
    /\ added[<<102, 111, 111>>] = 3
    /\ added[<<98, 97, 122>>] = 2
    /\ added[<<98, 97, 114>>] = 1
    /\ added[<<98>>] = 1
    /\ added[<<>>] = 0
    /\ added[<<195, 169>>] = 0

\* C16: foo, bar, baz, foo, baz, foo, b added to a trie sorted by value and
\* displaying direct counts renders as one newline, then the seven lines
\* joined by newlines, with no trailing newline.
C16_DocTestRendering ==
    (/\ DocAdded
     /\ out.rendered
     /\ trie.sort_option = "Value"
     /\ trie.display_data = "DirectCount")
        => out.ok /\ out.text = DocText

----------------------------------------------------------------------------
(* Trie: fragments and the order of the add calls *)

\* C17: the root's fragment is empty, every other node's fragment is its
\* parent's fragment followed by the one character under which the parent
\* stores it, and no add call panicked, whatever the words were (words with
\* multi-byte characters included).
C17_FragmentsExtendByKey ==
    /\ result \notin Panics
    /\ trie.fragment = <<>>
    /\ \A n \in TrieNodes(trie) :
          \A c \in DOMAIN n.children :
              n.children[c].fragment = n.fragment \o Utf8(c)

\* the byte string u sorts before v (Ord for str)
StrLess(u, v) ==
    \/ Len(u) < Len(v) /\ SubSeq(v, 1, Len(u)) = u
    \/ \E k \in 1..Len(u) :
          /\ k <= Len(v)
          /\ SubSeq(u, 1, k - 1) = SubSeq(v, 1, k - 1)
          /\ u[k] < v[k]

RECURSIVE Ascending(_)
\* the words of S, each as often as it was added, in ascending order
Ascending(S) ==
    IF S = {} THEN <<>>
    ELSE LET w == CHOOSE u \in S : \A v \in S \ {u} : StrLess(u, v)
         IN  [i \in 1..added[w] |-> w] \o Ascending(S \ {w})

RECURSIVE AddAll(_, _)
\* the trie after add of ws[1], ws[2], ... in turn on n, as far as the calls
\* get: a panic ends the run
AddAll(n, ws) ==
    IF ws = <<>> THEN n
    ELSE LET r == Trie_add(n, Head(ws))
         IN  IF r.res \in Panics THEN r.node ELSE AddAll(r.node, Tail(ws))

----------------------------------------------------------------------------
(* Directory snapshot: kinds of the nodes, and errors *)

RECURSIVE DirNodes(_)
\* the nodes of a DirTree
DirNodes(t) == {t} \cup UNION {DirNodes(t.children[i]) : i \in 1..Len(t.children)}

\* the path of a node of the snapshot is a symbolic link in the filesystem
IsLink(m) ==
    LET r == symlink_metadata(m.path) IN r.ok /\ KindOf(r.at) = "link"

\* the path of a node of the snapshot leads, through links, to a directory
LeadsToDir(m) ==
    LET r == metadata(m.path) IN r.ok /\ KindOf(r.at) = "dir"

\* the children of the node m are the entries of the directory its path
\* leads to, each once, under the names they have there
ListsDirectory(m) ==
    /\ {m.children[i].path : i \in 1..Len(m.children)}
          = {Append(m.path, n) : n \in read_dir(m.path).names}
    /\ Len(m.children) = Cardinality(read_dir(m.path).names)

\* C18: in a DirTree returned by DirTree::new the node returned by the call,
\* and no other, has kind Root, also when the path given is a symbolic link;
\* every other node whose path is a symbolic link has kind Symlink, with the
\* link's target, and no children, also when the link leads to a directory;
\* a node that is a link and has children is the root, and a root that is a
\* link to a directory has the entries of that directory as its children.
C18_RootAndSymlinks ==
    snapshot.kind = "Ok" =>
        LET t == snapshot.tree[1]
        IN  /\ {m \in DirNodes(t) : m.special = SpecialRoot} = {t}
            /\ \A m \in DirNodes(t) \ {t} :
                  IsLink(m) =>
                      /\ m.special = SpecialSymlink(read_link(m.path))
                      /\ m.children = <<>>
            /\ \A m \in DirNodes(t) :
                  IsLink(m) /\ m.children # <<>> => m = t
            /\ IsLink(t) /\ LeadsToDir(t) => ListsDirectory(t)

\* the path given was a link to a directory holding two entries, one of them
\* a link to a directory
C18_Witness ==
    /\ snapshot.kind = "Ok"
    /\ LET t == snapshot.tree[1]
       IN  /\ IsLink(t)
           /\ Len(t.children) = 2
           /\ \E m \in DirNodes(t) \ {t} :
                 IsLink(m) /\ LeadsToDir(m) /\ read_dir(m.path).names # {}

\* C19: when a filesystem operation of the scan failed (the stat of a path,
\* the reading of a link, the listing of a directory, the reading of one of
\* its entries), at whatever depth, DirTree::new returns that error and no
\* tree; a tree is returned only when none failed, and then every directory
\* the scan goes into has all its entries in the tree.
C19_ErrorsAbortTheScan ==
    /\ failure # <<>> =>
          /\ frames = <<>>
          /\ snapshot = IoError(failure[1].op, failure[1].path)
    /\ snapshot.kind = "Ok" =>
          /\ failure = <<>>
          /\ LET t == snapshot.tree[1]
             IN  \A m \in DirNodes(t) :
                    IF (symlink_metadata(m.path).ok
                          /\ KindOf(symlink_metadata(m.path).at) = "dir")
                       \/ (m = t /\ IsLink(m) /\ LeadsToDir(m))
                    THEN ListsDirectory(m)
                    ELSE m.children = <<>>

\* the scan ended with the error of an operation two levels below the path
\* given, after an entry of the same directory had been scanned
C19_Witness ==
    /\ snapshot.kind = "Err"
    /\ failure # <<>>
    /\ Len(failure[1].path) >= 2
    /\ failure[1].op \in {"symlink_metadata", "read_link", "read_dir", "entry"}
    /\ Cardinality(read_dir(<<>>).names) = 2

----------------------------------------------------------------------------
(* Directory snapshot: termination *)

\* the number of components of the longest path of the filesystem
RealDepth ==
    IF DOMAIN fs = {} THEN 0
    ELSE CHOOSE k \in {Len(p) : p \in DOMAIN fs} :
             \A p \in DOMAIN fs : Len(p) <= k

\* DirTree::new has returned, a tree or an error
Returned == frames = <<>> /\ snapshot.kind \in {"Ok", "Err"}

\* C21: DirTree::new returns on every filesystem, also when symbolic links
\* form cycles or point to the path scanned or above it: read_dir lists no
\* directory twice, and the calls of new_internal in progress are never more
\* than one per level of the hierarchy of real directories, plus one for the
\* entry being looked at.
C21_ScanTerminates ==
    /\ <>Returned
    /\ [](\A d \in DOMAIN listed : listed[d] = 1)
    /\ [](Len(frames) <= RealDepth + 1)

\* a scan of "/1" that returned a tree two levels deep, in which an entry is
\* a link to "/1" itself and another a link to "/", the directory above it
C21_Witness ==
    /\ snapshot.kind = "Ok"
    /\ LET t == snapshot.tree[1]
       IN  /\ t.path = <<1>>
           /\ \E m \in DirNodes(t) : m.special = SpecialSymlink(<<1>>)
           /\ \E m \in DirNodes(t) : m.special = SpecialSymlink(<<>>)
           /\ \E m \in DirNodes(t) : Len(m.path) = 3
    /\ Cardinality(DOMAIN listed) = 2

====
